---- MODULE Spec2Model ----
(***************************************************************************)
(* lockfile-guard: a linter that walks a source tree and reports           *)
(* JavaScript package-manager commands that ignore the lockfile or install *)
(* a package without a version pin (src/src/main.rs).                      *)
(*                                                                         *)
(* Text is modelled as a sequence of one-character strings, so that the    *)
(* regular expressions and the starts_with / contains / trim calls of the  *)
(* source are computed on characters, as the program computes them.        *)
(* A path is the sequence of its components, each a text.                  *)
(***************************************************************************)
EXTENDS Integers, Sequences, FiniteSets

\* ------------------------------------------------------------------------
\* Bounds of the model
\* ------------------------------------------------------------------------

\* Longest file content, in lines, that one scan is given.
MaxLines == 3

\* Number of directory entries one walk of lint_files yields.
MaxEntries == 3

\* ------------------------------------------------------------------------
\* Characters and text primitives (str methods of the Rust standard library)
\* ------------------------------------------------------------------------

\* The grave accent, a character a TLA+ string cannot hold.
Backtick ==
    "GRAVE"

\* Characters matched by the regex class \s and removed by str::trim.
Space ==
    {" ", "\t"}

\* Characters matched by the regex class [0-9].
Digit ==
    {"0", "1", "2", "3", "4", "5", "6", "7", "8", "9"}

Lower ==
    {"a", "b", "c", "d", "e", "f", "g", "h", "i", "j", "k", "l", "m",
     "n", "o", "p", "q", "r", "s", "t", "u", "v", "w", "x", "y", "z"}

Upper ==
    {"A", "B", "C", "D", "E", "F", "G", "H", "I", "J", "K", "L", "M",
     "N", "O", "P", "Q", "R", "S", "T", "U", "V", "W", "X", "Y", "Z"}

\* Characters of the regex class \w, which decides the word boundary \b.
WordChar ==
    Lower \cup Upper \cup Digit \cup {"_"}

\* str::starts_with
StartsWith(s, w) ==
    /\ Len(w) <= Len(s)
    /\ SubSeq(s, 1, Len(w)) = w

\* str::ends_with
EndsWith(s, w) ==
    /\ Len(w) <= Len(s)
    /\ SubSeq(s, Len(s) - Len(w) + 1, Len(s)) = w

\* str::contains
Contains(s, w) ==
    \E p \in 1..(Len(s) + 1) :
        /\ p + Len(w) - 1 <= Len(s)
        /\ SubSeq(s, p, p + Len(w) - 1) = w

\* str::trim: the text without its leading and trailing whitespace.
Trim(s) ==
    LET keep == {k \in 1..Len(s) : s[k] \notin Space}
    IN  IF keep = {}
        THEN <<>>
        ELSE LET first == CHOOSE k \in keep : \A j \in keep : k <= j
                 last  == CHOOSE k \in keep : \A j \in keep : j <= k
             IN  SubSeq(s, first, last)

\* ------------------------------------------------------------------------
\* Regular expressions (crate regex, unanchored is_match)
\*
\* A position p in 1..Len(s)+1 stands before the character s[p]. Every
\* construct maps the set P of positions a match may have reached to the set
\* of positions it may reach next; a pattern matches when the set it ends
\* with is not empty.
\* ------------------------------------------------------------------------

\* Every position at which an unanchored search may start.
AnyPos(s) ==
    1..(Len(s) + 1)

\* A literal.
Lit(s, P, w) ==
    {p + Len(w) : p \in {q \in P : /\ q + Len(w) - 1 <= Len(s)
                                   /\ SubSeq(s, q, q + Len(w) - 1) = w}}

\* One character of the class C.
One(s, P, C) ==
    {p + 1 : p \in {q \in P : q <= Len(s) /\ s[q] \in C}}

\* C+ : one or more characters of the class C.
Plus(s, P, C) ==
    {q \in 2..(Len(s) + 1) :
        \E p \in P : p < q /\ \A k \in p..(q - 1) : s[k] \in C}

\* \b : a word character on exactly one side of the position.
WordB(s, P) ==
    LET isw(k) == k \in 1..Len(s) /\ s[k] \in WordChar
    IN  {p \in P : isw(p - 1) # isw(p)}

\* $ : the end of the text.
AtEnd(s, P) ==
    {p \in P : p = Len(s) + 1}

\* ($|&&|;|\||#) : what may end a bare install command.
Terminator(s, P) ==
    AtEnd(s, P) \cup Lit(s, P, <<"&","&">>) \cup Lit(s, P, <<";">>)
        \cup Lit(s, P, <<"|">>) \cup Lit(s, P, <<"#">>)

\* \b(pnpm|yarn|bun)\b
other_manager_re(s) ==
    LET b == WordB(s, AnyPos(s))
    IN  WordB(s, Lit(s, b, <<"p","n","p","m">>) \cup Lit(s, b, <<"y","a","r","n">>) \cup Lit(s, b, <<"b","u","n">>)) # {}

\* \bnpm\s+ci\b
npm_ci_re(s) ==
    WordB(s, Lit(s, Plus(s, Lit(s, WordB(s, AnyPos(s)), <<"n","p","m">>), Space), <<"c","i">>)) # {}

\* \bnpm\s+(install|i) : the part npm_install_re and bare_install_re share.
NpmInstallHead(s) ==
    LET ws == Plus(s, Lit(s, WordB(s, AnyPos(s)), <<"n","p","m">>), Space)
    IN  Lit(s, ws, <<"i","n","s","t","a","l","l">>) \cup Lit(s, ws, <<"i">>)

\* \bnpm\s+(install|i)(\s|$)
npm_install_re(s) ==
    LET h == NpmInstallHead(s)
    IN  One(s, h, Space) \cup AtEnd(s, h) # {}

\* @[0-9]+\.[0-9]+
version_pin_re(s) ==
    Plus(s, Lit(s, Plus(s, Lit(s, AnyPos(s), <<"@">>), Digit), <<".">>), Digit) # {}

\* \bnpm\s+(install|i)(\s+)?($|&&|;|\||#)
bare_install_re(s) ==
    LET h == NpmInstallHead(s)
    IN  Terminator(s, h \cup Plus(s, h, Space)) # {}

\* \bpnpm\s+install\b
pnpm_install_re(s) ==
    WordB(s, Lit(s, Plus(s, Lit(s, WordB(s, AnyPos(s)), <<"p","n","p","m">>), Space), <<"i","n","s","t","a","l","l">>)) # {}

\* --frozen-lockfile
frozen_lockfile_re(s) ==
    Lit(s, AnyPos(s), <<"-","-","f","r","o","z","e","n","-","l","o","c","k","f","i","l","e">>) # {}

\* \bpnpm\s+add\s
pnpm_add_re(s) ==
    One(s, Lit(s, Plus(s, Lit(s, WordB(s, AnyPos(s)), <<"p","n","p","m">>), Space), <<"a","d","d">>), Space) # {}

\* \byarn(\s+install)?(\s+)?($|&&|;|\||#)
yarn_install_re(s) ==
    LET y == Lit(s, WordB(s, AnyPos(s)), <<"y","a","r","n">>)
        i == y \cup Lit(s, Plus(s, y, Space), <<"i","n","s","t","a","l","l">>)
    IN  Terminator(s, i \cup Plus(s, i, Space)) # {}

\* --(frozen-lockfile|immutable)
frozen_re(s) ==
    LET d == Lit(s, AnyPos(s), <<"-","-">>)
    IN  Lit(s, d, <<"f","r","o","z","e","n","-","l","o","c","k","f","i","l","e">>) \cup Lit(s, d, <<"i","m","m","u","t","a","b","l","e">>) # {}

\* \byarn\s+(global\s+)?add\s
yarn_add_re(s) ==
    LET y == Plus(s, Lit(s, WordB(s, AnyPos(s)), <<"y","a","r","n">>), Space)
        g == y \cup Plus(s, Lit(s, y, <<"g","l","o","b","a","l">>), Space)
    IN  One(s, Lit(s, g, <<"a","d","d">>), Space) # {}

\* \bbun\s+install\b
bun_install_re(s) ==
    WordB(s, Lit(s, Plus(s, Lit(s, WordB(s, AnyPos(s)), <<"b","u","n">>), Space), <<"i","n","s","t","a","l","l">>)) # {}

\* \bbun\s+add\s
bun_add_re(s) ==
    One(s, Lit(s, Plus(s, Lit(s, WordB(s, AnyPos(s)), <<"b","u","n">>), Space), <<"a","d","d">>), Space) # {}

\* ------------------------------------------------------------------------
\* Violations and the four rule modules
\* ------------------------------------------------------------------------

\* struct Violation
Violation(line_num, message, line) ==
    [line_num |-> line_num, message |-> message, line_content |-> Trim(line)]

MsgNpmCi ==
    <<"U","s","e"," ","'","n","p","m"," ","c","i","'"," ","i","n","s","t","e","a","d"," ","o","f"," ","'","n","p","m"," ","i","n","s","t","a","l","l","'"," ","f","o","r"," ","l","o","c","k","f","i","l","e","-","b","a","s","e","d"," ","i","n","s","t","a","l","l","a","t","i","o","n","s">>

MsgNpmPin ==
    <<"n","p","m"," ","p","a","c","k","a","g","e"," ","i","n","s","t","a","l","l","a","t","i","o","n"," ","w","i","t","h","o","u","t"," ","v","e","r","s","i","o","n"," ","p","i","n"," ","(","u","s","e"," ","'","n","p","m"," ","i"," ","p","a","c","k","a","g","e","@","v","e","r","s","i","o","n","'",")">>

MsgPnpmFrozen ==
    <<"U","s","e"," ","'","p","n","p","m"," ","i","n","s","t","a","l","l"," ","-","-","f","r","o","z","e","n","-","l","o","c","k","f","i","l","e","'"," ","t","o"," ","r","e","s","p","e","c","t"," ","l","o","c","k","f","i","l","e">>

MsgPnpmPin ==
    <<"p","n","p","m"," ","p","a","c","k","a","g","e"," ","i","n","s","t","a","l","l","a","t","i","o","n"," ","w","i","t","h","o","u","t"," ","v","e","r","s","i","o","n"," ","p","i","n"," ","(","u","s","e"," ","'","p","n","p","m"," ","a","d","d"," ","p","a","c","k","a","g","e","@","v","e","r","s","i","o","n","'",")">>

MsgYarnFrozen ==
    <<"U","s","e"," ","'","y","a","r","n"," ","i","n","s","t","a","l","l"," ","-","-","f","r","o","z","e","n","-","l","o","c","k","f","i","l","e","'"," ","t","o"," ","r","e","s","p","e","c","t"," ","l","o","c","k","f","i","l","e">>

MsgYarnPin ==
    <<"y","a","r","n"," ","p","a","c","k","a","g","e"," ","i","n","s","t","a","l","l","a","t","i","o","n"," ","w","i","t","h","o","u","t"," ","v","e","r","s","i","o","n"," ","p","i","n"," ","(","u","s","e"," ","'","y","a","r","n"," ","a","d","d"," ","p","a","c","k","a","g","e","@","v","e","r","s","i","o","n","'",")">>

MsgBunFrozen ==
    <<"U","s","e"," ","'","b","u","n"," ","i","n","s","t","a","l","l"," ","-","-","f","r","o","z","e","n","-","l","o","c","k","f","i","l","e","'"," ","t","o"," ","r","e","s","p","e","c","t"," ","l","o","c","k","f","i","l","e">>

MsgBunPin ==
    <<"b","u","n"," ","p","a","c","k","a","g","e"," ","i","n","s","t","a","l","l","a","t","i","o","n"," ","w","i","t","h","o","u","t"," ","v","e","r","s","i","o","n"," ","p","i","n"," ","(","u","s","e"," ","'","b","u","n"," ","a","d","d"," ","p","a","c","k","a","g","e","@","v","e","r","s","i","o","n","'",")">>

\* fn check_npm, without its test for a bare install.
check_npm_no_bare_test(line, line_num) ==
    IF other_manager_re(line) THEN <<>>
    ELSE IF npm_ci_re(line) THEN <<>>
    ELSE IF npm_install_re(line)
         THEN IF version_pin_re(line) THEN <<>>
              ELSE <<Violation(line_num, MsgNpmPin, line)>>
         ELSE <<>>

\* fn check_npm
check_npm(line, line_num) ==
    IF other_manager_re(line) THEN <<>>
    ELSE IF npm_ci_re(line) THEN <<>>
    ELSE IF npm_install_re(line)
         THEN IF version_pin_re(line) THEN <<>>
              ELSE IF bare_install_re(line)
                   THEN <<Violation(line_num, MsgNpmCi, line)>>
                   ELSE <<Violation(line_num, MsgNpmPin, line)>>
         ELSE <<>>

\* fn check_pnpm
check_pnpm(line, line_num) ==
    (IF pnpm_install_re(line) /\ ~frozen_lockfile_re(line)
     THEN <<Violation(line_num, MsgPnpmFrozen, line)>> ELSE <<>>)
    \o
    (IF pnpm_add_re(line) /\ ~version_pin_re(line)
     THEN <<Violation(line_num, MsgPnpmPin, line)>> ELSE <<>>)

\* fn check_yarn
check_yarn(line, line_num) ==
    (IF yarn_install_re(line) /\ ~frozen_re(line)
     THEN <<Violation(line_num, MsgYarnFrozen, line)>> ELSE <<>>)
    \o
    (IF yarn_add_re(line) /\ ~version_pin_re(line)
     THEN <<Violation(line_num, MsgYarnPin, line)>> ELSE <<>>)

\* fn check_bun
check_bun(line, line_num) ==
    (IF bun_install_re(line) /\ ~frozen_lockfile_re(line)
     THEN <<Violation(line_num, MsgBunFrozen, line)>> ELSE <<>>)
    \o
    (IF bun_add_re(line) /\ ~version_pin_re(line)
     THEN <<Violation(line_num, MsgBunPin, line)>> ELSE <<>>)

\* ------------------------------------------------------------------------
\* State
\* ------------------------------------------------------------------------

VARIABLES
    \* one call of a rule module: the command line it is given, in parts
    rule_in,
    \* the Vec<Violation> the rule module returned
    rule_out,
    \* "input" before the call, then the name of the module that ran
    rule_pc,
    \* check_file: the lines of the content being scanned (content.lines())
    content,
    \* check_file: number of lines the loop has consumed
    line_idx,
    \* check_file: let mut in_code_block
    in_code_block,
    \* check_file: let mut violations
    violations,
    \* check_file: "idle", "loop" or "returned"
    scan_pc,
    \* lint_files: the (base path, Gitignore) pairs collect_gitignores built
    gitignores,
    \* lint_files: the entries of the tree the walk has passed so far, each
    \* with what became of it
    walked,
    \* lint_files: let mut files_checked
    files_checked,
    \* lint_files: let mut violations_found
    violations_found,
    \* what print_violations has written: one (path, violations) per call
    printed,
    \* main: "walk" while lint_files runs, "exit" once process::exit is called
    lint_pc,
    \* the code given to process::exit
    exit_code

vars ==
    <<rule_in, rule_out, rule_pc,
      content, line_idx, in_code_block, violations, scan_pc,
      gitignores, walked, files_checked, violations_found, printed,
      lint_pc, exit_code>>

rule_vars ==
    <<rule_in, rule_out, rule_pc>>

scan_vars ==
    <<content, line_idx, in_code_block, violations, scan_pc>>

lint_vars ==
    <<gitignores, walked, files_checked, violations_found, printed,
      lint_pc, exit_code>>

\* The state of each part of the program before it has run.
RuleIdle ==
    /\ rule_in = [cmd |-> <<>>, flag |-> <<>>, name |-> <<>>,
                  ver |-> <<>>, tail |-> <<>>]
    /\ rule_out = <<>>
    /\ rule_pc = "input"

ScanIdle ==
    /\ content = <<>>
    /\ line_idx = 0
    /\ in_code_block = FALSE
    /\ violations = <<>>
    /\ scan_pc = "idle"

LintIdle ==
    /\ gitignores = <<>>
    /\ walked = <<>>
    /\ files_checked = 0
    /\ violations_found = 0
    /\ printed = <<>>
    /\ lint_pc = "walk"
    /\ exit_code = -1

\* ------------------------------------------------------------------------
\* The rule modules, each called on one command line
\* ------------------------------------------------------------------------

NpmInstallCmds ==
    {<<"n","p","m"," ","i">>, <<"n","p","m"," ","i","n","s","t","a","l","l">>, <<"n","p","m"," "," ","i","n","s","t","a","l","l">>}

PnpmAddCmds ==
    {<<"p","n","p","m"," ","a","d","d">>}

YarnAddCmds ==
    {<<"y","a","r","n"," ","a","d","d">>, <<"y","a","r","n"," ","g","l","o","b","a","l"," ","a","d","d">>}

YarnInstallCmds ==
    {<<"y","a","r","n">>, <<"y","a","r","n"," ","i","n","s","t","a","l","l">>}

BunAddCmds ==
    {<<"b","u","n"," ","a","d","d">>}

RuleCmds ==
    NpmInstallCmds \cup PnpmAddCmds \cup YarnAddCmds \cup YarnInstallCmds
        \cup BunAddCmds \cup {<<"n","p","m"," ","c","i">>, <<"p","n","p","m"," ","i","n","s","t","a","l","l">>, <<"b","u","n"," ","i","n","s","t","a","l","l">>}

RuleFlags ==
    {<<>>, <<" ","-","D">>, <<" ","-","-","s","a","v","e","-","d","e","v">>, <<" ","-","-","f","r","o","z","e","n","-","l","o","c","k","f","i","l","e">>, <<" ","-","-","i","m","m","u","t","a","b","l","e">>,
     <<" ","-","-","p","r","o","d","u","c","t","i","o","n">>}

PlainNames ==
    {<<" ","e","s","l","i","n","t">>, <<" ","y","a","r","n">>}

ScopedNames ==
    {<<" ","@","t","y","p","e","s","/","n","o","d","e">>, <<" ","@","p","n","p","m","/","e","x","e","c">>, <<" ","@","1",".","2","/","c","o","r","e">>}

RuleNames ==
    {<<>>} \cup PlainNames \cup ScopedNames

RuleVers ==
    {<<>>, <<"@","8",".","5","0",".","0">>, <<"@","1",".","2">>, <<"@","l","a","t","e","s","t">>}

RuleTails ==
    {<<>>, <<" "," ">>, <<" ","&","&"," ","m","a","k","e">>, <<" ","#"," ","n","o","t","e">>, <<";">>, <<" ","&","&"," ","y","a","r","n"," ","b","u","i","l","d">>}

\* The command lines the rule modules are called on: a command, then
\* optionally a flag, a package name with an optional version or tag, and
\* what follows the command on the line.
RuleInputs ==
    {r \in [cmd : RuleCmds, flag : RuleFlags, name : RuleNames,
            ver : RuleVers, tail : RuleTails] :
        r.name = <<>> => r.ver = <<>>}

\* The text of a command line.
Render(r) ==
    r.cmd \o r.flag \o r.name \o r.ver \o r.tail

RuleInit ==
    /\ rule_in \in RuleInputs
    /\ rule_out = <<>>
    /\ rule_pc = "input"
    /\ ScanIdle
    /\ LintIdle

RunNpm(n) ==
    /\ rule_pc = "input"
    /\ rule_out' = check_npm(Render(rule_in), n)
    /\ rule_pc' = "npm"
    /\ UNCHANGED <<rule_in, scan_vars, lint_vars>>

RunPnpm(n) ==
    /\ rule_pc = "input"
    /\ rule_out' = check_pnpm(Render(rule_in), n)
    /\ rule_pc' = "pnpm"
    /\ UNCHANGED <<rule_in, scan_vars, lint_vars>>

RunYarn(n) ==
    /\ rule_pc = "input"
    /\ rule_out' = check_yarn(Render(rule_in), n)
    /\ rule_pc' = "yarn"
    /\ UNCHANGED <<rule_in, scan_vars, lint_vars>>

RunBun(n) ==
    /\ rule_pc = "input"
    /\ rule_out' = check_bun(Render(rule_in), n)
    /\ rule_pc' = "bun"
    /\ UNCHANGED <<rule_in, scan_vars, lint_vars>>

RuleNext ==
    \E n \in 1..MaxLines :
        \/ RunNpm(n)
        \/ RunPnpm(n)
        \/ RunYarn(n)
        \/ RunBun(n)

SpecRules ==
    RuleInit /\ [][RuleNext]_vars

\* ------------------------------------------------------------------------
\* The scanner: check_file
\* ------------------------------------------------------------------------

\* fn is_comment_or_placeholder, without the test for a leading '-'.
is_comment_or_placeholder_no_dash(line) ==
    LET trimmed == Trim(line)
    IN  \/ StartsWith(trimmed, <<"#">>)
        \/ Contains(trimmed, <<"<","p","a","c","k","a","g","e",">">>)
        \/ Contains(trimmed, <<"<","v","e","r","s","i","o","n",">">>)
        \/ StartsWith(trimmed, <<Backtick>>)
        \/ StartsWith(trimmed, <<">">>)

\* fn is_comment_or_placeholder
is_comment_or_placeholder(line) ==
    LET trimmed == Trim(line)
    IN  \/ StartsWith(trimmed, <<"#">>)
        \/ Contains(trimmed, <<"<","p","a","c","k","a","g","e",">">>)
        \/ Contains(trimmed, <<"<","v","e","r","s","i","o","n",">">>)
        \/ StartsWith(trimmed, <<Backtick>>)
        \/ StartsWith(trimmed, <<">">>)
        \/ StartsWith(trimmed, <<"-">>)

\* The four violations.extend calls of check_file, with bun's rule first.
check_all_bun_first(line, line_num) ==
    check_bun(line, line_num) \o check_npm(line, line_num)
        \o check_pnpm(line, line_num) \o check_yarn(line, line_num)

\* The four violations.extend calls of check_file's loop body.
check_all(line, line_num) ==
    check_npm(line, line_num) \o check_pnpm(line, line_num)
        \o check_yarn(line, line_num) \o check_bun(line, line_num)

\* The loop body of check_file without its skip of lines inside a code block.
scan_line_no_block_skip(st, line, line_num) ==
    IF StartsWith(Trim(line), <<Backtick,Backtick,Backtick>>)
    THEN [in_code_block |-> ~st.in_code_block, violations |-> st.violations]
    ELSE IF is_comment_or_placeholder(line)
    THEN st
    ELSE [in_code_block |-> st.in_code_block,
          violations |-> st.violations \o check_all(line, line_num)]

\* The loop body of check_file with the exemption filter asked before the
\* fence marker is looked for.
scan_line_exempt_first(st, line, line_num) ==
    IF is_comment_or_placeholder(line)
    THEN st
    ELSE IF StartsWith(Trim(line), <<Backtick,Backtick,Backtick>>)
    THEN [in_code_block |-> ~st.in_code_block, violations |-> st.violations]
    ELSE IF st.in_code_block
    THEN st
    ELSE [in_code_block |-> st.in_code_block,
          violations |-> st.violations \o check_all(line, line_num)]

\* The loop body of check_file: st holds in_code_block and violations before
\* the line, the result holds them after it; line_num is 1-based.
scan_line(st, line, line_num) ==
    IF StartsWith(Trim(line), <<Backtick,Backtick,Backtick>>)
    THEN [in_code_block |-> ~st.in_code_block, violations |-> st.violations]
    ELSE IF st.in_code_block
    THEN st
    ELSE IF is_comment_or_placeholder(line)
    THEN st
    ELSE [in_code_block |-> st.in_code_block,
          violations |-> st.violations \o check_all(line, line_num)]

\* check_file's loop from line k + 1 on.
RECURSIVE scan_from(_, _, _)
scan_from(lines, k, st) ==
    IF k >= Len(lines)
    THEN st
    ELSE scan_from(lines, k + 1, scan_line(st, lines[k + 1], k + 1))

\* fn check_file: the violations of a whole content.
check_file(lines) ==
    scan_from(lines, 0, [in_code_block |-> FALSE, violations |-> <<>>]).violations

\* The lines a scanned content is made of.
ScanLines ==
    {<<" "," ",Backtick,Backtick,Backtick,"n","p","m"," ","i","n","s","t","a","l","l">>,
     <<" "," ","n","p","m"," ","i","n","s","t","a","l","l"," "," ">>,
     <<"p","n","p","m"," ","i","n","s","t","a","l","l"," ","&","&"," ","p","n","p","m"," ","a","d","d"," ","x"," ","&","&"," ","y","a","r","n"," ","&","&"," ","b","u","n"," ","i","n","s","t","a","l","l">>,
     <<"#"," ","n","p","m"," ","i","n","s","t","a","l","l">>,
     <<"-"," ","y","a","r","n"," ","a","d","d"," ","r","e","a","c","t">>,
     <<">"," ","p","n","p","m"," ","i","n","s","t","a","l","l">>,
     <<Backtick,"b","u","n"," ","i","n","s","t","a","l","l",Backtick>>,
     <<"n","p","m"," ","i","n","s","t","a","l","l"," ","<","p","a","c","k","a","g","e",">">>,
     <<"b","u","n"," ","a","d","d"," ","x","@","<","v","e","r","s","i","o","n",">">>}

\* Every content of at most MaxLines lines.
ScanContents ==
    UNION {[1..n -> ScanLines] : n \in 0..MaxLines}

ScanInit ==
    /\ ScanIdle
    /\ RuleIdle
    /\ LintIdle

\* check_file is entered: its locals are initialised.
CallCheckFile(c) ==
    /\ scan_pc = "idle"
    /\ content' = c
    /\ line_idx' = 0
    /\ in_code_block' = FALSE
    /\ violations' = <<>>
    /\ scan_pc' = "loop"
    /\ UNCHANGED <<rule_vars, lint_vars>>

\* One iteration of check_file's loop.
ScanNextLine ==
    /\ scan_pc = "loop"
    /\ line_idx < Len(content)
    /\ LET st == scan_line([in_code_block |-> in_code_block,
                            violations |-> violations],
                           content[line_idx + 1], line_idx + 1)
       IN  /\ in_code_block' = st.in_code_block
           /\ violations' = st.violations
    /\ line_idx' = line_idx + 1
    /\ UNCHANGED <<content, scan_pc, rule_vars, lint_vars>>

\* The loop is over: check_file returns violations.
ReturnViolations ==
    /\ scan_pc = "loop"
    /\ line_idx = Len(content)
    /\ scan_pc' = "returned"
    /\ UNCHANGED <<content, line_idx, in_code_block, violations,
                   rule_vars, lint_vars>>

\* The caller has consumed the result; the content and the violations of
\* the call are gone. Nothing is written to in_code_block on the way out:
\* the next call starts from its own `let mut in_code_block = false`.
DropResult ==
    /\ scan_pc = "returned"
    /\ content' = <<>>
    /\ line_idx' = 0
    /\ violations' = <<>>
    /\ scan_pc' = "idle"
    /\ UNCHANGED <<in_code_block, rule_vars, lint_vars>>

ScanNext ==
    \/ \E c \in ScanContents : CallCheckFile(c)
    \/ ScanNextLine
    \/ ReturnViolations
    \/ DropResult

SpecScan ==
    ScanInit /\ [][ScanNext]_vars

\* ------------------------------------------------------------------------
\* The walk: lint_files and main
\* ------------------------------------------------------------------------

\* Path::to_string_lossy: the components joined with '/'.
RECURSIVE PathStr(_)
PathStr(path) ==
    IF Len(path) = 0 THEN <<>>
    ELSE IF Len(path) = 1 THEN path[1]
    ELSE PathStr(SubSeq(path, 1, Len(path) - 1)) \o <<"/">> \o path[Len(path)]

\* Path::file_name
FileName(path) ==
    path[Len(path)]

\* Path::extension of a file name: what follows its last '.', unless there is
\* no '.' or the only one is the first character.
Extension(file_name) ==
    LET dots == {k \in 1..Len(file_name) : file_name[k] = "."}
    IN  IF dots = {} THEN <<>>
        ELSE LET last == CHOOSE k \in dots : \A j \in dots : j <= k
             IN  IF last = 1 THEN <<>>
                 ELSE SubSeq(file_name, last + 1, Len(file_name))

\* Whether Path::extension returns Some.
HasExtension(file_name) ==
    \E k \in 2..Len(file_name) : file_name[k] = "."

\* u8::to_ascii_lowercase
ToLower(c) ==
    CASE c = "A" -> "a"
      [] c = "B" -> "b"
      [] c = "C" -> "c"
      [] c = "D" -> "d"
      [] c = "E" -> "e"
      [] c = "F" -> "f"
      [] c = "G" -> "g"
      [] c = "H" -> "h"
      [] c = "I" -> "i"
      [] c = "J" -> "j"
      [] c = "K" -> "k"
      [] c = "L" -> "l"
      [] c = "M" -> "m"
      [] c = "N" -> "n"
      [] c = "O" -> "o"
      [] c = "P" -> "p"
      [] c = "Q" -> "q"
      [] c = "R" -> "r"
      [] c = "S" -> "s"
      [] c = "T" -> "t"
      [] c = "U" -> "u"
      [] c = "V" -> "v"
      [] c = "W" -> "w"
      [] c = "X" -> "x"
      [] c = "Y" -> "y"
      [] c = "Z" -> "z"
      [] OTHER -> c

\* str::eq_ignore_ascii_case
EqIgnoreCase(a, b) ==
    /\ Len(a) = Len(b)
    /\ \A k \in 1..Len(a) : ToLower(a[k]) = ToLower(b[k])

\* fn is_excluded
is_excluded(path) ==
    LET path_str == PathStr(path)
    IN  \/ Contains(path_str, <<"n","o","d","e","_","m","o","d","u","l","e","s">>)
        \/ Contains(path_str, <<".","g","i","t">>)
        \/ EndsWith(path_str, <<"l","i","n","t","-","p","a","c","k","a","g","e","-","i","n","s","t","a","l","l",".","s","h">>)

\* fn should_check_file
should_check_file(path) ==
    LET file_name == FileName(path)
        path_str == PathStr(path)
        ext == Extension(file_name)
        is_yaml == /\ HasExtension(file_name)
                   /\ EqIgnoreCase(ext, <<"y","m","l">>) \/ EqIgnoreCase(ext, <<"y","a","m","l">>)
    IN  \/ StartsWith(file_name, <<"D","o","c","k","e","r","f","i","l","e">>)
        \/ EndsWith(file_name, <<".","d","o","c","k","e","r","f","i","l","e">>)
        \/ HasExtension(file_name) /\ EqIgnoreCase(ext, <<"m","d">>)
        \/ HasExtension(file_name) /\ EqIgnoreCase(ext, <<"s","h">>)
        \/ is_yaml /\ Contains(path_str, <<".","g","i","t","h","u","b","/","w","o","r","k","f","l","o","w","s">>)

\* WalkDir's filter_entry(|e| !is_excluded(e.path())): an entry is not
\* yielded when it or a directory above it is excluded.
Pruned(path) ==
    \E k \in 1..Len(path) : is_excluded(SubSeq(path, 1, k))

\* Path::strip_prefix succeeds: base is a leading run of path's components.
UnderBase(path, base) ==
    /\ Len(base) <= Len(path)
    /\ SubSeq(path, 1, Len(base)) = base

\* fn is_ignored. A Gitignore is modelled by the set of relative paths its
\* patterns match as ignored.
is_ignored(path, gis) ==
    \E k \in 1..Len(gis) :
        /\ UnderBase(path, gis[k].base)
        /\ SubSeq(path, Len(gis[k].base) + 1, Len(path)) \in gis[k].ignored

\* The loop body of lint_files, adding the violations of a file to
\* violations_found before it asks whether the file is ignored.
lint_entry_count_ignored(acc, e, read, gis) ==
    IF ~(e.is_file /\ should_check_file(e.path))
    THEN acc
    ELSE IF ~read.ok
    THEN [acc EXCEPT !.files_checked = @ + 1]
    ELSE LET found == check_file(read.text)
         IN  IF found = <<>>
             THEN [acc EXCEPT !.files_checked = @ + 1]
             ELSE IF is_ignored(e.path, gis)
             THEN [acc EXCEPT !.files_checked = @ + 1,
                              !.violations_found = @ + Len(found)]
             ELSE [files_checked |-> acc.files_checked + 1,
                   violations_found |-> acc.violations_found + Len(found),
                   printed |-> Append(acc.printed,
                                      [path |-> e.path, violations |-> found])]

\* The loop body of lint_files for a yielded entry e; read is what
\* fs::read_to_string returns for it. acc holds files_checked,
\* violations_found and the output of print_violations.
lint_entry(acc, e, read, gis) ==
    IF ~(e.is_file /\ should_check_file(e.path))
    THEN acc
    ELSE IF ~read.ok
    THEN [acc EXCEPT !.files_checked = @ + 1]
    ELSE LET found == check_file(read.text)
         IN  IF found = <<>> \/ is_ignored(e.path, gis)
             THEN [acc EXCEPT !.files_checked = @ + 1]
             ELSE [files_checked |-> acc.files_checked + 1,
                   violations_found |-> acc.violations_found + Len(found),
                   printed |-> Append(acc.printed,
                                      [path |-> e.path, violations |-> found])]

\* What became of a tree entry: "pruned" (never yielded), "skipped" (yielded,
\* not a file to check), "unreadable" or "scanned".
Outcome(e, read) ==
    IF Pruned(e.path) THEN "pruned"
    ELSE IF ~(e.is_file /\ should_check_file(e.path)) THEN "skipped"
    ELSE IF ~read.ok THEN "unreadable"
    ELSE "scanned"

\* main: the code given to process::exit; every violation suppressed or not.
exit_code_counting_files(result) ==
    IF result.files_checked = 0 THEN 0 ELSE 1

\* main: the code given to process::exit.
main_exit_code(result) ==
    IF result.violations_found = 0 THEN 0 ELSE 1

\* The entries a tree may hold.
TreeEntries ==
    {[path |-> <<<<".">>, <<"R","E","A","D","M","E",".","m","d">>>>, is_file |-> TRUE],
     [path |-> <<<<".">>, <<"s","u","b">>, <<"D","o","c","k","e","r","f","i","l","e">>>>, is_file |-> TRUE],
     [path |-> <<<<".">>, <<".","g","i","t","h","u","b">>, <<"w","o","r","k","f","l","o","w","s">>, <<"c","i",".","y","m","l">>>>, is_file |-> TRUE],
     [path |-> <<<<".">>, <<"n","o","d","e","_","m","o","d","u","l","e","s">>, <<"p","k","g">>, <<"i","n","s","t","a","l","l",".","s","h">>>>, is_file |-> TRUE],
     [path |-> <<<<".">>, <<"s","r","c">>, <<"m","a","i","n",".","r","s">>>>, is_file |-> TRUE],
     [path |-> <<<<".">>, <<"d","o","c","s",".","M","D">>>>, is_file |-> FALSE]}

\* The contents a readable file may hold: clean, one violation, two
\* violations after a comment.
FileContents ==
    {<<<<"n","p","m"," ","c","i">>>>,
     <<<<"n","p","m"," ","i","n","s","t","a","l","l">>>>,
     <<<<"#"," ","s","e","t","u","p">>, <<"y","a","r","n">>, <<"p","n","p","m"," ","a","d","d"," ","x">>>>}

\* What fs::read_to_string may return.
Reads ==
    {[ok |-> FALSE, text |-> <<>>]}
        \cup {[ok |-> TRUE, text |-> c] : c \in FileContents}

\* What collect_gitignores may have built: nothing, a root .gitignore that
\* ignores sub/Dockerfile, or one in ./sub and a root one ignoring README.md.
GitignoreSets ==
    {<<>>,
     <<[base |-> <<<<".">>>>, ignored |-> {<<<<"s","u","b">>, <<"D","o","c","k","e","r","f","i","l","e">>>>}]>>,
     <<[base |-> <<<<".">>, <<"s","u","b">>>>, ignored |-> {<<<<"D","o","c","k","e","r","f","i","l","e">>>>}],
       [base |-> <<<<".">>>>, ignored |-> {<<<<"R","E","A","D","M","E",".","m","d">>>>}]>>}

Init ==
    /\ gitignores \in GitignoreSets
    /\ walked = <<>>
    /\ files_checked = 0
    /\ violations_found = 0
    /\ printed = <<>>
    /\ lint_pc = "walk"
    /\ exit_code = -1
    /\ RuleIdle
    /\ ScanIdle

\* The walk reaches the entry e of the tree: filter_entry drops it, or the
\* loop body of lint_files runs on it.
LintEntry(e, read) ==
    /\ lint_pc = "walk"
    /\ Len(walked) < MaxEntries
    /\ \A k \in 1..Len(walked) : walked[k].path # e.path
    /\ LET acc == [files_checked |-> files_checked,
                   violations_found |-> violations_found,
                   printed |-> printed]
           new == IF Pruned(e.path) THEN acc
                  ELSE lint_entry(acc, e, read, gitignores)
           out == Outcome(e, read)
       IN  /\ files_checked' = new.files_checked
           /\ violations_found' = new.violations_found
           /\ printed' = new.printed
           /\ walked' = Append(walked,
                  [path |-> e.path, is_file |-> e.is_file, outcome |-> out,
                   text |-> IF out = "scanned" THEN read.text ELSE <<>>])
    /\ UNCHANGED <<gitignores, lint_pc, exit_code, rule_vars, scan_vars>>

\* The walk is over: lint_files returns and main exits.
Exit ==
    /\ lint_pc = "walk"
    /\ lint_pc' = "exit"
    /\ exit_code' = main_exit_code([violations_found |-> violations_found,
                                    files_checked |-> files_checked])
    /\ UNCHANGED <<gitignores, walked, files_checked, violations_found,
                   printed, rule_vars, scan_vars>>

Next ==
    \/ \E e \in TreeEntries, read \in Reads : LintEntry(e, read)
    \/ Exit

Spec ==
    Init /\ [][Next]_vars

\* ------------------------------------------------------------------------
\* Properties of the rule modules (specification SpecRules)
\* ------------------------------------------------------------------------

\* The command line the rule module was called on.
RuleLine ==
    Render(rule_in)

\* The module returned exactly one violation, and its message contains w.
OneViolationMentioning(w) ==
    /\ Len(rule_out) = 1
    /\ Contains(rule_out[1].message, w)

\* The line is `npm i` or `npm install`, optional flags, an optional package
\* name, and nothing else; no @<digits>.<digits> is attached to the name.
NpmInstallUnpinned ==
    /\ rule_pc = "npm"
    /\ rule_in.cmd \in NpmInstallCmds
    /\ rule_in.tail = <<>>
    /\ ~version_pin_re(rule_in.ver)

SpaceOrEndFollows ==
    LET rest == rule_in.flag \o rule_in.name \o rule_in.ver \o rule_in.tail
    IN  rest = <<>> \/ rest[1] \in Space

AddsPackage ==
    \/ rule_pc = "npm" /\ rule_in.cmd \in NpmInstallCmds
    \/ rule_pc = "pnpm" /\ rule_in.cmd \in PnpmAddCmds
    \/ rule_pc = "yarn" /\ rule_in.cmd \in YarnAddCmds
    \/ rule_pc = "bun" /\ rule_in.cmd \in BunAddCmds

\* C4: in every rule module the version-pin check looks at the '@' after the
\* package name, never at the '@' of a scope: an add/install line naming
\* @scope/name gets exactly one violation mentioning "version pin" when no
\* version follows the name, and none when @M.N follows it.
C4_ScopeIsNotAVersion ==
    ( /\ AddsPackage
      /\ rule_in.name \in ScopedNames
      /\ rule_in.flag \in {<<>>, <<" ","-","D">>}
      /\ rule_in.tail = <<>> ) =>
        IF version_pin_re(rule_in.ver)
        THEN rule_out = <<>>
        ELSE OneViolationMentioning(<<"v","e","r","s","i","o","n"," ","p","i","n">>)

\* C5: check_yarn returns the unsafe-bulk-install violation for every line
\* in which bare `yarn` or `yarn install` is followed by whitespace, the end
\* of the line, &&, ;, | or #, unless the line contains --frozen-lockfile or
\* --immutable: no other condition makes the invocation safe.
C5_YarnInstallNeedsFrozenFlag ==
    ( /\ rule_pc = "yarn"
      /\ rule_in.cmd \in YarnInstallCmds
      /\ rule_in.flag \in {<<>>, <<" ","-","-","f","r","o","z","e","n","-","l","o","c","k","f","i","l","e">>, <<" ","-","-","i","m","m","u","t","a","b","l","e">>,
                           <<" ","-","-","p","r","o","d","u","c","t","i","o","n">>}
      /\ rule_in.name = <<>> ) =>
        ( (\E k \in 1..Len(rule_out) : rule_out[k].message = MsgYarnFrozen)
            <=> ~frozen_re(RuleLine) )

\* ------------------------------------------------------------------------
\* Properties of the scanner (specification SpecScan)
\* ------------------------------------------------------------------------

\* The trimmed text of the line starts with the fence marker.
FenceMarkerLine(line) ==
    StartsWith(Trim(line), <<Backtick,Backtick,Backtick>>)

\* Line k of the content lies inside a fenced block: an odd number of
\* fence-marker lines precede it.
InsideFence(lines, k) ==
    Cardinality({j \in 1..(k - 1) : FenceMarkerLine(lines[j])}) % 2 = 1

\* The line the violation v refers to.
LineOf(v) ==
    content[v.line_num]

\* Every violation refers to a line the loop has consumed.
ViolationsReferToLines ==
    \A k \in 1..Len(violations) : violations[k].line_num \in 1..line_idx

\* C1: no violation check_file collects refers to a fence-marker line or to
\* a line inside a fenced block, whatever command that line contains.
C1_NoViolationInFence ==
    /\ ViolationsReferToLines
    /\ \A k \in 1..Len(violations) :
        /\ ~FenceMarkerLine(LineOf(violations[k]))
        /\ ~InsideFence(content, violations[k].line_num)

\* check_file has returned one violation for a content whose first line is
\* flagged, whose second is a fence marker holding a command, and whose third,
\* inside the block, is the flagged line again.
C1_Witness ==
    /\ scan_pc = "returned"
    /\ content = <<<<" "," ","n","p","m"," ","i","n","s","t","a","l","l"," "," ">>, <<" "," ",Backtick,Backtick,Backtick,"n","p","m"," ","i","n","s","t","a","l","l">>, <<" "," ","n","p","m"," ","i","n","s","t","a","l","l"," "," ">>>>
    /\ Len(violations) = 1
    /\ violations[1].line_num = 1

\* C2: no violation check_file collects refers to a line the exemption
\* filter accepts: one whose trimmed text starts with '#', '`', '>' or '-',
\* or that contains <package> or <version>.
C2_NoViolationOnExemptLine ==
    /\ ViolationsReferToLines
    /\ \A k \in 1..Len(violations) :
        LET t == Trim(LineOf(violations[k]))
        IN  /\ t # <<>>
            /\ t[1] \notin {"#", Backtick, ">", "-"}
            /\ ~Contains(LineOf(violations[k]), <<"<","p","a","c","k","a","g","e",">">>)
            /\ ~Contains(LineOf(violations[k]), <<"<","v","e","r","s","i","o","n",">">>)

\* check_file has returned for a content with an exempt line that holds a
\* command between two flagged lines: only the flagged lines are reported.
C2_Witness ==
    /\ scan_pc = "returned"
    /\ content = <<<<" "," ","n","p","m"," ","i","n","s","t","a","l","l"," "," ">>, <<"-"," ","y","a","r","n"," ","a","d","d"," ","r","e","a","c","t">>, <<" "," ","n","p","m"," ","i","n","s","t","a","l","l"," "," ">>>>
    /\ Len(violations) = 2
    /\ violations[2].line_num = 3

\* The position of a message's rule module in the order npm, pnpm, yarn, bun.
ManagerRank(message) ==
    CASE message \in {MsgNpmCi, MsgNpmPin} -> 1
      [] message \in {MsgPnpmFrozen, MsgPnpmPin} -> 2
      [] message \in {MsgYarnFrozen, MsgYarnPin} -> 3
      [] message \in {MsgBunFrozen, MsgBunPin} -> 4

\* C9: the violations are ordered by line number, those of one line in the
\* order npm, pnpm, yarn, bun; each line_num is the 1-based position of its
\* line in the content, skipped lines counted, and each line_content is that
\* line's trimmed text.
C9_OrderAndLineNumbers ==
    /\ ViolationsReferToLines
    /\ \A i, j \in 1..Len(violations) :
        i < j =>
            /\ violations[i].line_num <= violations[j].line_num
            /\ violations[i].line_num = violations[j].line_num =>
                   ManagerRank(violations[i].message)
                       <= ManagerRank(violations[j].message)
    /\ \A k \in 1..Len(violations) :
        violations[k].line_content = Trim(LineOf(violations[k]))

\* check_file has returned for a content whose first line is exempt, whose
\* second is flagged with surrounding whitespace and whose third is flagged by
\* the pnpm, yarn and bun modules.
C9_Witness ==
    /\ scan_pc = "returned"
    /\ content = <<<<"#"," ","n","p","m"," ","i","n","s","t","a","l","l">>, <<" "," ","n","p","m"," ","i","n","s","t","a","l","l"," "," ">>,
                   <<"p","n","p","m"," ","i","n","s","t","a","l","l"," ","&","&"," ","p","n","p","m"," ","a","d","d"," ","x"," ","&","&"," ","y","a","r","n"," ","&","&"," ","b","u","n"," ","i","n","s","t","a","l","l">>>>
    /\ Len(violations) = 5
    /\ violations[1].line_num = 2
    /\ violations[1].line_content = <<"n","p","m"," ","i","n","s","t","a","l","l">>
    /\ violations[2].line_num = 3
    /\ violations[2].message = MsgPnpmFrozen
    /\ violations[3].message = MsgPnpmPin
    /\ violations[4].message = MsgYarnFrozen
    /\ violations[5].message = MsgBunFrozen

\* A scan of a file is under way or has just returned.
ScanningFile ==
    scan_pc \in {"loop", "returned"}

\* C11: at every point of a file scan in_code_block is true exactly when an
\* odd number of fence-marker lines have been seen so far in that file: it
\* starts false for each file, only a fence-marker line changes it, such a
\* line toggles it although it starts with the exempt grave accent, and an
\* unclosed fence of an earlier file leaves no trace in the next scan.
C11_FlagIsFenceParity ==
    ScanningFile =>
        ( in_code_block <=>
            Cardinality({j \in 1..line_idx : FenceMarkerLine(content[j])}) % 2 = 1 )

\* The scan has passed a fence marker, closed the block with a second one
\* and opened a new block with a third: the flag is true after three
\* toggles, and the content ends with its fence unclosed.
C11_Witness ==
    /\ scan_pc = "returned"
    /\ content = <<<<" "," ",Backtick,Backtick,Backtick,"n","p","m"," ","i","n","s","t","a","l","l">>, <<" "," ",Backtick,Backtick,Backtick,"n","p","m"," ","i","n","s","t","a","l","l">>, <<" "," ",Backtick,Backtick,Backtick,"n","p","m"," ","i","n","s","t","a","l","l">>>>
    /\ line_idx = 3
    /\ in_code_block
    /\ violations = <<>>

\* ------------------------------------------------------------------------
\* Properties of the walk (specification Spec)
\* ------------------------------------------------------------------------

\* The entry is a .yml/.yaml file under .github/workflows, outside
\* node_modules and outside the version-control directory .git.
WorkflowYaml(e) ==
    LET ext == Extension(FileName(e.path))
    IN  /\ e.is_file
        /\ EqIgnoreCase(ext, <<"y","m","l">>) \/ EqIgnoreCase(ext, <<"y","a","m","l">>)
        /\ Contains(PathStr(e.path), <<".","g","i","t","h","u","b","/","w","o","r","k","f","l","o","w","s">>)
        /\ \A k \in 1..Len(e.path) : e.path[k] \notin {<<"n","o","d","e","_","m","o","d","u","l","e","s">>, <<".","g","i","t">>}

\* The entries of the walk so far that lint_files counted as checked.
CountedEntries ==
    {k \in 1..Len(walked) : walked[k].outcome \in {"scanned", "unreadable"}}

\* The entries of the walk so far whose content check_file was given.
ScannedEntries ==
    {k \in 1..Len(walked) : walked[k].outcome = "scanned"}

\* C6: a workflow YAML file the walk reaches is visited by lint_files: it is
\* counted in files_checked and its content is given to check_file.
C6_WorkflowYamlVisited ==
    \A k \in 1..Len(walked) :
        WorkflowYaml(walked[k]) =>
            /\ k \in CountedEntries
            /\ files_checked >= 1

\* C7: a file that cannot be read is left out of files_checked, which counts
\* only the files whose content was scanned.
C7_UnreadableNotCounted ==
    files_checked = Cardinality(ScannedEntries)

\* The number of violations check_file returns over the scanned entries
\* 1..k of the walk that the gitignores do not suppress.
RECURSIVE UnsuppressedViolations(_)
UnsuppressedViolations(k) ==
    IF k = 0 THEN 0
    ELSE UnsuppressedViolations(k - 1)
         + (IF walked[k].outcome = "scanned"
               /\ ~is_ignored(walked[k].path, gitignores)
            THEN Len(check_file(walked[k].text))
            ELSE 0)

\* The scanned entries with violations that the gitignores do not suppress.
ReportedEntries ==
    {k \in 1..Len(walked) :
        /\ walked[k].outcome = "scanned"
        /\ check_file(walked[k].text) # <<>>
        /\ ~is_ignored(walked[k].path, gitignores)}

\* C8: violations_found is the sum of the violations check_file returned
\* over the scanned files the gitignores do not suppress; a suppressed file
\* adds nothing to it and is not printed, and is still counted in
\* files_checked.
C8_ViolationsFoundIsUnsuppressedSum ==
    /\ violations_found = UnsuppressedViolations(Len(walked))
    /\ {printed[i].path : i \in 1..Len(printed)}
           = {walked[k].path : k \in ReportedEntries}
    /\ \A i \in 1..Len(printed) : ~is_ignored(printed[i].path, gitignores)
    /\ files_checked = Cardinality(CountedEntries)

\* The walk has scanned ./sub/Dockerfile, which holds a violation and is
\* ignored, and ./README.md, which holds two and is not.
C8_Witness ==
    /\ Len(walked) = 2
    /\ walked[1].path = <<<<".">>, <<"s","u","b">>, <<"D","o","c","k","e","r","f","i","l","e">>>>
    /\ walked[1].outcome = "scanned"
    /\ walked[1].text = <<<<"n","p","m"," ","i","n","s","t","a","l","l">>>>
    /\ is_ignored(walked[1].path, gitignores)
    /\ walked[2].path = <<<<".">>, <<"R","E","A","D","M","E",".","m","d">>>>
    /\ walked[2].outcome = "scanned"
    /\ Len(check_file(walked[2].text)) = 2
    /\ violations_found = 2
    /\ files_checked = 2
    /\ Len(printed) = 1

\* C10: the process exits with 0 exactly when violations_found is 0 and
\* with 1 when it is greater; no other code is produced, and files whose
\* violations were all suppressed do not cause exit code 1.
C10_ExitCode ==
    IF lint_pc = "exit"
    THEN /\ exit_code \in {0, 1}
         /\ exit_code = 0 <=> violations_found = 0
         /\ exit_code = 1 <=> violations_found > 0
         /\ exit_code = 1 <=> ReportedEntries # {}
    ELSE exit_code = -1

\* The process has exited with 0 after a walk whose only file with
\* violations was suppressed.
C10_Witness ==
    /\ lint_pc = "exit"
    /\ exit_code = 0
    /\ \E k \in 1..Len(walked) :
        /\ walked[k].outcome = "scanned"
        /\ check_file(walked[k].text) # <<>>
        /\ is_ignored(walked[k].path, gitignores)
====
